---- MODULE Spec2Model ----
(***************************************************************************)
(* Model of ExtensionManagementCLIService                                  *)
(* (src/vs/platform/extensionManagement/common/extensionManagementCLI-     *)
(* Service.ts): getIdAndVersion, installExtensions with its two task pools *)
(* (installVSIX, installFromGallery), getGalleryExtensions, validate and   *)
(* uninstallExtensions.                                                    *)
(*                                                                         *)
(* Strings are sequences of one-character strings.  Every `await` of the   *)
(* source is a scheduling point: an action of the model is the code that   *)
(* runs between two awaits.  The extension store, the gallery and the      *)
(* localization service are collaborators; each call to them ends in one   *)
(* of the outcomes their interface allows (value, absent, cancellation,    *)
(* error), chosen nondeterministically.                                    *)
(***************************************************************************)
EXTENDS Integers, Sequences, FiniteSets, TLC

\* ------------------------------------------------------------------ bounds
\* longest `extensions` argument of installExtensions / uninstallExtensions
MaxRefs == 2
\* longest `builtinExtensionIds` argument of installExtensions
MaxBuiltin == 1
\* most entries the store holds when the command starts
MaxInstalled == 2
\* how often the same install command is run in a row
MaxRuns == 2
\* most pieces a reference handed to getIdAndVersion is made of
MaxTokens == 4

\* ------------------------------------------------------------- characters
Digits == {"0", "1", "2", "3", "4", "5", "6", "7", "8", "9"}

IsDigit(c) == c \in Digits

DigitValue(c) ==
  CASE c = "0" -> 0 [] c = "1" -> 1 [] c = "2" -> 2 [] c = "3" -> 3
    [] c = "4" -> 4 [] c = "5" -> 5 [] c = "6" -> 6 [] c = "7" -> 7
    [] c = "8" -> 8 [] c = "9" -> 9

\* String.prototype.toLowerCase on one character of the model's alphabet
LowerChar(c) ==
  CASE c = "P" -> "p" [] c = "A" -> "a" [] c = "L" -> "l" [] c = "B" -> "b"
    [] OTHER -> c

toLowerCase(s) == [i \in 1..Len(s) |-> LowerChar(s[i])]

\* the value `undefined` / `null` of the source
Undefined == <<>>

\* template literals `${a}.${b}` and `${a}@${b}`
Dot(a, b) == a \o <<".">> \o b
At(a, b) == a \o <<"@">> \o b

\* -------------------------------------------------- collaborators' helpers
\* adoptToGalleryExtensionId (extensionManagementUtil): the identifier in the
\* casing the rest of the system compares with
adoptToGalleryExtensionId(id) == toLowerCase(id)

\* getGalleryExtensionId (extensionManagementUtil)
getGalleryExtensionId(publisher, name) == toLowerCase(Dot(publisher, name))

\* areSameExtensions (extensionManagementUtil): identifier equality,
\* independent of case
areSameExtensions(a, b) == toLowerCase(a.id) = toLowerCase(b.id)

\* isLanguagePackExtension (extensions.ts): the manifest contributes
\* localizations
isLanguagePackExtension(manifest) == manifest.localizations

RECURSIVE ToNat(_)
ToNat(ds) ==
  IF ds = <<>> THEN 0
  ELSE 10 * ToNat(SubSeq(ds, 1, Len(ds) - 1)) + DigitValue(ds[Len(ds)])

\* positions of the first and second '.' of a version string, and of the
\* end of its patch number
FirstDot(v) == CHOOSE i \in 1..Len(v) : v[i] = "." /\ \A k \in 1..(i - 1) : v[k] # "."
SecondDot(v) ==
  CHOOSE j \in (FirstDot(v) + 1)..Len(v) :
    v[j] = "." /\ \A k \in (FirstDot(v) + 1)..(j - 1) : v[k] # "."
PatchEnd(v) ==
  CHOOSE e \in SecondDot(v)..Len(v) :
    /\ \A k \in (SecondDot(v) + 1)..e : IsDigit(v[k])
    /\ (e = Len(v) \/ ~IsDigit(v[e + 1]))

Major(v) == ToNat(SubSeq(v, 1, FirstDot(v) - 1))
Minor(v) == ToNat(SubSeq(v, FirstDot(v) + 1, SecondDot(v) - 1))
Patch(v) == ToNat(SubSeq(v, SecondDot(v) + 1, PatchEnd(v)))
HasPrerelease(v) == PatchEnd(v) < Len(v)

\* gt (vs/base/common/semver): v1 is a strictly greater version than v2
gt(v1, v2) ==
  \/ Major(v1) > Major(v2)
  \/ Major(v1) = Major(v2) /\ Minor(v1) > Minor(v2)
  \/ Major(v1) = Major(v2) /\ Minor(v1) = Minor(v2) /\ Patch(v1) > Patch(v2)
  \/ /\ Major(v1) = Major(v2) /\ Minor(v1) = Minor(v2) /\ Patch(v1) = Patch(v2)
     /\ ~HasPrerelease(v1) /\ HasPrerelease(v2)

\* ----------------------------------------------------- reference parser
\* the line terminators of ECMAScript: line feed, carriage return, and the
\* line and paragraph separators U+2028 and U+2029.  A TLA+ string cannot
\* hold the last two, so the one-character strings "\\u2028" and "\\u2029"
\* stand for them.
LineTerminators == {"\n", "\r", "\\u2028", "\\u2029"}

\* '.' of EXTENSION_ID_REGEX, which has no s flag: any character but a
\* line terminator
MatchesAny(c) == c \notin LineTerminators

\* group 1 of EXTENSION_ID_REGEX, [^.]+\..+ : a run of characters other
\* than '.' (line terminators included), a '.', and at least one more
\* character that is no line terminator
MatchesIdPart(s) ==
  \E k \in 1..(Len(s) - 2) :
    /\ \A i \in 1..k : s[i] # "."
    /\ s[k + 1] = "."
    /\ \A i \in (k + 2)..Len(s) : MatchesAny(s[i])

\* group 2 of EXTENSION_ID_REGEX, \d+\.\d+\.\d+(-.*)?
MatchesVersion(s) ==
  \E i \in 2..Len(s) : \E j \in (i + 2)..Len(s) : \E e \in (j + 1)..Len(s) :
    /\ \A k \in 1..(i - 1) : IsDigit(s[k])
    /\ s[i] = "."
    /\ \A k \in (i + 1)..(j - 1) : IsDigit(s[k])
    /\ s[j] = "."
    /\ \A k \in (j + 1)..e : IsDigit(s[k])
    /\ \/ e = Len(s)
       \/ s[e + 1] = "-" /\ \A k \in (e + 2)..Len(s) : MatchesAny(s[k])

\* the '@' at which /^([^.]+\..+)@(\d+\.\d+\.\d+(-.*)?)$/ can split `id`
RegexSplits(id) ==
  {k \in 1..Len(id) :
     /\ id[k] = "@"
     /\ MatchesIdPart(SubSeq(id, 1, k - 1))
     /\ MatchesVersion(SubSeq(id, k + 1, Len(id)))}

\* (mutant) group 1 written lazy, [^.]+\..+? : the split is at the first such '@'
RegexSplit_lazy(id) == CHOOSE k \in RegexSplits(id) : \A m \in RegexSplits(id) : k <= m

\* group 1 is greedy: EXTENSION_ID_REGEX.exec splits at the last such '@'
RegexSplit(id) == CHOOSE k \in RegexSplits(id) : \A m \in RegexSplits(id) : m <= k

getIdAndVersion(id) ==
  IF RegexSplits(id) # {}
  THEN <<adoptToGalleryExtensionId(SubSeq(id, 1, RegexSplit(id) - 1)),
         SubSeq(id, RegexSplit(id) + 1, Len(id))>>
  ELSE <<adoptToGalleryExtensionId(id), Undefined>>

\* getId(manifest, withVersion)
getId(manifest, withVersion) ==
  IF withVersion
  THEN At(Dot(manifest.publisher, manifest.name), manifest.version)
  ELSE Dot(manifest.publisher, manifest.name)


\* ------------------------------------------------------------ environment
V1 == <<"1", ".", "0", ".", "0">>
V2 == <<"2", ".", "0", ".", "0">>

\* IExtensionManifest: publisher, name, version, and whether it contributes
\* localizations (a language pack)
Manifest(publisher, name, version, localizations) ==
  [publisher |-> publisher, name |-> name, version |-> version,
   localizations |-> localizations]

\* the extensions the gallery publishes: p.a (latest 2.0.0) and the
\* language pack P.L (latest 1.0.0); the gallery keeps the publisher's casing
Catalog ==
  {[publisher |-> <<"p">>, name |-> <<"a">>, localizations |-> FALSE,
    versions |-> {V1, V2}, latest |-> V2],
   [publisher |-> <<"P">>, name |-> <<"L">>, localizations |-> TRUE,
    versions |-> {V1}, latest |-> V1]}

Published(id) ==
  {e \in Catalog : toLowerCase(Dot(e.publisher, e.name)) = toLowerCase(id)}

\* IGalleryExtension
GalleryExtension(e, version) ==
  [identifier |-> [id |-> Dot(e.publisher, e.name)], version |-> version]

\* the package files on disk and IExtensionManagementService.getManifest(vsix);
\* "/bad" holds no manifest
PkgA1 == <<"/", "a", "1">>
PkgA2 == <<"/", "a", "2">>
PkgL1 == <<"/", "l", "1">>
PkgBad == <<"/", "b", "a", "d">>
Packages == {PkgA1, PkgA2, PkgL1, PkgBad}

PackageManifest(vsix) ==
  CASE vsix = PkgA1 -> Manifest(<<"p">>, <<"a">>, V1, FALSE)
    [] vsix = PkgA2 -> Manifest(<<"p">>, <<"a">>, V2, FALSE)
    [] vsix = PkgL1 -> Manifest(<<"P">>, <<"L">>, V1, TRUE)
    [] OTHER -> Undefined

\* IExtensionGalleryService.getManifest(galleryExtension)
GalleryManifest(g) ==
  LET e == CHOOSE x \in Catalog : Dot(x.publisher, x.name) = g.identifier.id
  IN Manifest(e.publisher, e.name, g.version, e.localizations)

\* ILocalExtension
LocalExtension(id, manifest, type, isBuiltin) ==
  [identifier |-> [id |-> id], manifest |-> manifest, type |-> type,
   isBuiltin |-> isBuiltin]

\* a reference of the `extensions` argument: a URI or a string
Uri(location) == [uri |-> TRUE, value |-> location]
Str(s) == [uri |-> FALSE, value |-> s]

\* sequences over S of length at most n
SeqUpTo(S, n) == UNION {[1..k -> S] : k \in 0..n}

\* the indices of a sequence whose element satisfies a test, lowest first
FirstOf(I) == CHOOSE i \in I : \A k \in I : i <= k

\* Array.prototype.find with the same-extension test: the first entry of
\* `list` that is the extension `identifier`, or Undefined
findSame(list, identifier) ==
  LET I == {k \in 1..Len(list) : areSameExtensions(list[k].identifier, identifier)}
  IN IF I = {} THEN Undefined ELSE list[FirstOf(I)]

\* IExtensionManagementService.getInstalled(type); called without a type it
\* returns the extensions of every type
AnyType == "any"
getInstalled(st, type) ==
  IF type = AnyType THEN st ELSE SelectSeq(st, LAMBDA e : e.type = type)

\* the store after a successful install: the User entry of the extension is
\* replaced by the new one
Installed(st, entry) ==
  Append(SelectSeq(st, LAMBDA e :
           ~(e.type = "User" /\ areSameExtensions(e.identifier, entry.identifier))),
         entry)

\* the store after a successful uninstall of `entry`
Uninstalled(st, entry) == SelectSeq(st, LAMBDA e : e # entry)


\* ------------------------------------------------------------------ state
VARIABLES
  store,                        \* the store's installed extensions, in the order getInstalled returns them
  op,                           \* the public method called: "install" or "uninstall"
  pc,                           \* where the method is suspended
  run,                          \* how many times the command was run
  extensions,                   \* argument `extensions`
  builtinExtensionIds,          \* argument `builtinExtensionIds`
  isMachineScoped,              \* argument `isMachineScoped`
  force,                        \* argument `force`
  installed,                    \* installExtensions: `installed` (line 95)
  vsixs,                        \* installExtensions: `vsixs`
  installExtensionInfos,        \* installExtensions: `installExtensionInfos`
  failed,                       \* installExtensions: `failed`
  installedExtensionsManifests, \* installExtensions: `installedExtensionsManifests`
  vsixTask,                     \* one installVSIX task per element of vsixs
  lookup,                       \* getGalleryExtensions: which lookups are pending
  galleryExtensions,            \* getGalleryExtensions: the Map `galleryExtensions`
  galleryTask,                  \* one task per element of installExtensionInfos
  index,                        \* uninstallExtensions: position of `extension` in extensions
  id,                           \* uninstallExtensions: `id`
  extensionsToUninstall,        \* uninstallExtensions: `extensionsToUninstall`
  position,                     \* uninstallExtensions: position of `extensionToUninstall`
  uninstalledExtensions,        \* uninstallExtensions: `uninstalledExtensions`
  outcome,                      \* how the method ended: returned or rejected, and with what
  calls,                        \* history: the collaborator calls made by this run
  settled,                      \* history: how each install delegate call of this run ended
  refreshes                     \* history: calls of localizationsService.update() by this run

args == <<extensions, builtinExtensionIds, isMachineScoped, force>>
installVars ==
  <<installed, vsixs, installExtensionInfos, failed, installedExtensionsManifests,
    vsixTask, lookup, galleryExtensions, galleryTask>>
uninstallVars == <<index, id, extensionsToUninstall, position, uninstalledExtensions>>
history == <<calls, settled, refreshes>>
vars == <<store, op, pc, run, args, installVars, uninstallVars, outcome, history>>

\* the references a command line names
InstallReferences ==
  {Uri(PkgA1), Uri(PkgA2), Uri(PkgL1), Uri(PkgBad),
   Str(<<"p", ".", "a">>), Str(<<"P", ".", "A", "@">> \o V1),
   Str(<<"p", ".", "a", "@">> \o V2), Str(<<"p", ".", "l">>)}
BuiltinReferences == {<<"P", ".", "L">>}
MachineScopes == {TRUE}
UninstallReferences ==
  {Str(<<"P", ".", "A">>), Str(<<"p", ".", "l">>), Uri(PkgA1), Uri(PkgBad)}

\* what the store may hold when the command starts: per extension at most
\* one User and one System entry, in any order
UserEntries ==
  {LocalExtension(<<"p", ".", "a">>, Manifest(<<"p">>, <<"a">>, V1, FALSE), "User", FALSE),
   LocalExtension(<<"p", ".", "a">>, Manifest(<<"p">>, <<"a">>, V2, FALSE), "User", FALSE),
   LocalExtension(<<"P", ".", "L">>, Manifest(<<"P">>, <<"L">>, V1, TRUE), "User", FALSE)}
BuiltinEntries ==
  {LocalExtension(<<"p", ".", "a">>, Manifest(<<"p">>, <<"a">>, V2, FALSE), "User", TRUE),
   LocalExtension(<<"p", ".", "a">>, Manifest(<<"p">>, <<"a">>, V1, FALSE), "System", TRUE),
   LocalExtension(<<"P", ".", "L">>, Manifest(<<"P">>, <<"L">>, V1, TRUE), "System", TRUE)}

OnePerKind(st) ==
  \A i, j \in 1..Len(st) :
    (i # j /\ areSameExtensions(st[i].identifier, st[j].identifier))
      => st[i].type # st[j].type

Stores(entries) == {st \in SeqUpTo(entries, MaxInstalled) : OnePerKind(st)}

NoTask == <<>>
NoLookup == [batch |-> "none", pinned |-> <<>>]
EmptyMap == <<>>

\* the service is constructed and no method has been called
Constructed ==
  /\ op = "none"
  /\ pc = "idle"
  /\ run = 0
  /\ extensions = <<>>
  /\ builtinExtensionIds = <<>>
  /\ isMachineScoped = FALSE
  /\ force = FALSE
  /\ installed = <<>>
  /\ vsixs = <<>>
  /\ installExtensionInfos = <<>>
  /\ failed = <<>>
  /\ installedExtensionsManifests = <<>>
  /\ vsixTask = NoTask
  /\ lookup = NoLookup
  /\ galleryExtensions = EmptyMap
  /\ galleryTask = NoTask
  /\ index = 0
  /\ id = Undefined
  /\ extensionsToUninstall = <<>>
  /\ position = 0
  /\ uninstalledExtensions = <<>>
  /\ outcome = "pending"
  /\ calls = {}
  /\ settled = {}
  /\ refreshes = 0

\* installExtensions reads the User extensions only
InitInstall ==
  /\ store \in Stores(UserEntries)
  /\ Constructed

InitUninstall ==
  /\ store \in Stores(UserEntries \cup BuiltinEntries)
  /\ Constructed

InitRerun ==
  /\ store = <<>>
  /\ Constructed


\* ---------------------------------------------------------------- results
Returned == "returned"
AggregateError == "Failed Installing Extensions"
InvalidVsixError == "Invalid vsix"
NotInstalledError == "is not installed"
\* the errors the collaborators raise, named after the call that raised them
GetInstalledError == "getInstalled failed"
GetManifestError == "getManifest failed"
InstallError == "install failed"
GalleryError == "gallery lookup failed"
UpdateError == "update failed"
UninstallError == "uninstall failed"
\* getId(manifest) on an absent manifest (line 269)
TypeError == "TypeError"

\* (mutant) Promise.race in place of Promise.all: one settled task is enough
done_race(tasks) == \E k \in 1..Len(tasks) : tasks[k].pc = "done"

\* Promise.all over the tasks of a pool resolves when all of them have
done(tasks) == \A k \in 1..Len(tasks) : tasks[k].pc = "done"

\* Map.prototype.set
MapSet(map, key, value) ==
  [k \in DOMAIN map \cup {key} |-> IF k = key THEN value ELSE map[k]]

\* ------------------------------------------------------- install planner
\* (mutant) the planner without the test of line 99: only a request for the
\* installed version is dropped
checkIfNotInstalled_sameVersionOnly(inst, frc, extId, version) ==
  LET installedExtension == findSame(inst, [id |-> extId])
  IN IF installedExtension # Undefined
     THEN ~(version # Undefined /\ installedExtension.manifest.version = version)
     ELSE TRUE

\* checkIfNotInstalled (lines 96-109) over the snapshot `inst`
checkIfNotInstalled(inst, frc, extId, version) ==
  LET installedExtension == findSame(inst, [id |-> extId])
  IN IF installedExtension # Undefined
     THEN IF version = Undefined /\ ~frc THEN FALSE
          ELSE IF version # Undefined /\ installedExtension.manifest.version = version
               THEN FALSE
               ELSE TRUE
     ELSE TRUE

InstallExtensionInfo(reference, isBuiltin, machineScoped) ==
  [id |-> getIdAndVersion(reference)[1],
   version |-> getIdAndVersion(reference)[2],
   installOptions |-> [isBuiltin |-> isBuiltin, isMachineScoped |-> machineScoped]]

\* lines 110-121: the URIs of `extensions`, in order
planVsixs(exts) ==
  LET uris == SelectSeq(exts, LAMBDA e : e.uri)
  IN [k \in 1..Len(uris) |-> uris[k].value]

\* lines 111-127: the references that pass checkIfNotInstalled, the user's
\* first and the builtin ones after them
planInfos(exts, builtins, inst, frc, machineScoped) ==
  LET keep(s) ==
        checkIfNotInstalled(inst, frc, getIdAndVersion(s)[1], getIdAndVersion(s)[2])
      user == SelectSeq(exts, LAMBDA e : ~e.uri /\ keep(e.value))
      builtin == SelectSeq(builtins, keep)
  IN [k \in 1..Len(user) |-> InstallExtensionInfo(user[k].value, FALSE, machineScoped)]
       \o [k \in 1..Len(builtin) |-> InstallExtensionInfo(builtin[k], TRUE, FALSE)]

\* (mutant) line 198 without its filter: every candidate's identifier goes
\* into the batched lookup
extensionIds_all(infos) == [k \in 1..Len(infos) |-> infos[k].id]

\* lines 198-199
extensionIds(infos) ==
  LET bare == SelectSeq(infos, LAMBDA x : x.version = Undefined)
  IN [k \in 1..Len(bare) |-> bare[k].id]
extensionsWithIdAndVersion(infos) == SelectSeq(infos, LAMBDA x : x.version # Undefined)

\* the calls getGalleryExtensions makes before it first suspends (lines 202-213)
LookupCalls(infos) ==
  {[delegate |-> "getExtensions", ids |-> extensionIds(infos)]}
    \cup {[delegate |-> "getCompatibleExtension", task |-> k,
           id |-> extensionsWithIdAndVersion(infos)[k].id,
           version |-> extensionsWithIdAndVersion(infos)[k].version] :
          k \in 1..Len(extensionsWithIdAndVersion(infos))}

\* lines 171-173: the end of installExtensions
Finish(f) ==
  /\ pc' = "done"
  /\ outcome' = IF f # <<>> THEN AggregateError ELSE Returned

\* the method rejects with `error`
Reject(error) ==
  /\ pc' = "done"
  /\ outcome' = error

\* lines 167-173, run when both pools are through
AfterPools(f, manifests) ==
  IF \E k \in 1..Len(manifests) : isLanguagePackExtension(manifests[k])
  THEN /\ pc' = "install:update"
       /\ refreshes' = refreshes + 1
       /\ outcome' = outcome
  ELSE /\ Finish(f)
       /\ refreshes' = refreshes

\* lines 143-145, run when the local-package pool is through
AfterVsixs(infos, f, manifests) ==
  IF infos # <<>>
  THEN /\ pc' = "install:lookups"
       /\ lookup' = [batch |-> "pending",
                     pinned |-> [k \in 1..Len(extensionsWithIdAndVersion(infos)) |-> "pending"]]
       /\ calls' = calls \cup LookupCalls(infos)
       /\ UNCHANGED <<outcome, refreshes>>
  ELSE /\ AfterPools(f, manifests)
       /\ UNCHANGED <<lookup, calls>>

\* ------------------------------------------------------ installExtensions
\* the command line calls installExtensions
installExtensions_call ==
  /\ pc = "idle"
  /\ \E exts \in SeqUpTo(InstallReferences, MaxRefs),
        builtins \in SeqUpTo(BuiltinReferences, MaxBuiltin),
        scoped \in MachineScopes, frc \in BOOLEAN :
       /\ extensions' = exts
       /\ builtinExtensionIds' = builtins
       /\ isMachineScoped' = scoped
       /\ force' = frc
  /\ op' = "install"
  /\ pc' = "install:getInstalled"
  /\ run' = 1
  /\ UNCHANGED <<store, installVars, uninstallVars, outcome, history>>

\* line 95 resolves; lines 96-145 run up to the first await
installExtensions_getInstalled ==
  /\ pc = "install:getInstalled"
  /\ \/ /\ Reject(GetInstalledError)
        /\ UNCHANGED <<installVars, history>>
     \/ LET inst == getInstalled(store, "User")
            uris == planVsixs(extensions)
            infos == planInfos(extensions, builtinExtensionIds, inst, force, isMachineScoped)
        IN /\ installed' = inst
           /\ vsixs' = uris
           /\ installExtensionInfos' = infos
           /\ IF uris # <<>>
              THEN /\ vsixTask' = [k \in 1..Len(uris) |->
                                     [pc |-> "getManifest", manifest |-> Undefined]]
                   /\ pc' = "install:vsixs"
                   /\ UNCHANGED <<lookup, calls, outcome, refreshes>>
              ELSE /\ AfterVsixs(infos, failed, installedExtensionsManifests)
                   /\ UNCHANGED vsixTask
           /\ UNCHANGED <<failed, installedExtensionsManifests, galleryExtensions,
                          galleryTask, settled>>
  /\ UNCHANGED <<store, op, run, args, uninstallVars>>


\* ------------------------------------------------ local packages (vsix)
\* how a task of a pool ended
Settled(pool, k, result) == [pool |-> pool, task |-> k, result |-> result]

\* (mutant) the task of vsixs[i] has no catch clause: its error rejects
\* Promise.all and with it installExtensions
catchVsix_rethrow(i, error) ==
  /\ Reject(error)
  /\ vsixTask' = [vsixTask EXCEPT ![i].pc = "done"]
  /\ settled' = settled \cup {Settled("vsix", i, error)}
  /\ UNCHANGED failed

\* lines 131-139: the task of vsixs[i] ends in the catch clause
catchVsix(i, error) ==
  /\ failed' = Append(failed, vsixs[i])
  /\ vsixTask' = [vsixTask EXCEPT ![i].pc = "done"]
  /\ settled' = settled \cup {Settled("vsix", i, error)}
  /\ UNCHANGED <<pc, outcome>>

\* lines 132-135: installVSIX returned `manifest` (or null) to the task of vsixs[i]
returnVsix(i, manifest, result) ==
  /\ installedExtensionsManifests' =
       IF manifest # Undefined
       THEN Append(installedExtensionsManifests, manifest)
       ELSE installedExtensionsManifests
  /\ vsixTask' = [vsixTask EXCEPT ![i].pc = "done"]
  /\ settled' = settled \cup {Settled("vsix", i, result)}

\* (mutant) validate decides on the list installExtensions read at line 95
validate_snapshot(manifest, installedExtensions, frc) ==
  LET extensionIdentifier == [id |-> getGalleryExtensionId(manifest.publisher, manifest.name)]
      newer == \E k \in 1..Len(installed) :
                 /\ areSameExtensions(extensionIdentifier, installed[k].identifier)
                 /\ gt(installed[k].manifest.version, manifest.version)
  IN ~(newer /\ ~frc)

\* validate (lines 253-262), given what getInstalled returned
validate(manifest, installedExtensions, frc) ==
  LET extensionIdentifier == [id |-> getGalleryExtensionId(manifest.publisher, manifest.name)]
      newer == \E k \in 1..Len(installedExtensions) :
                 /\ areSameExtensions(extensionIdentifier, installedExtensions[k].identifier)
                 /\ gt(installedExtensions[k].manifest.version, manifest.version)
  IN ~(newer /\ ~frc)

\* (mutant) the error of validate passes the task's boundary and rejects
\* installExtensions
invalidVsix_fatal(i) ==
  /\ Reject(InvalidVsixError)
  /\ vsixTask' = [vsixTask EXCEPT ![i].pc = "done"]
  /\ settled' = settled \cup {Settled("vsix", i, InvalidVsixError)}
  /\ UNCHANGED <<failed, installedExtensionsManifests>>

\* lines 249-251: validate throws on an absent manifest; nothing catches
\* the error before the task's catch clause (line 136)
invalidVsix(i) ==
  /\ catchVsix(i, InvalidVsixError)
  /\ UNCHANGED installedExtensionsManifests

\* line 178 settles; validate runs to its await (line 254) or throws (line 250)
installVSIX_getManifest(i) ==
  /\ pc = "install:vsixs"
  /\ vsixTask[i].pc = "getManifest"
  /\ \/ /\ catchVsix(i, GetManifestError)
        /\ UNCHANGED installedExtensionsManifests
     \/ /\ PackageManifest(vsixs[i]) = Undefined
        /\ invalidVsix(i)
     \/ /\ PackageManifest(vsixs[i]) # Undefined
        /\ vsixTask' = [vsixTask EXCEPT ![i] =
                          [pc |-> "validate", manifest |-> PackageManifest(vsixs[i])]]
        /\ UNCHANGED <<failed, installedExtensionsManifests, settled, pc, outcome>>
  /\ UNCHANGED <<store, op, run, args, installed, vsixs, installExtensionInfos, lookup,
                 galleryExtensions, galleryTask, uninstallVars, calls, refreshes>>

\* line 254 settles; lines 255-262 and 180-182 run up to the call of install
installVSIX_validate(i) ==
  /\ pc = "install:vsixs"
  /\ vsixTask[i].pc = "validate"
  /\ \/ /\ catchVsix(i, GetInstalledError)
        /\ UNCHANGED <<installedExtensionsManifests, calls>>
     \/ /\ ~validate(vsixTask[i].manifest, getInstalled(store, "User"), force)
        /\ returnVsix(i, Undefined, "downgrade")
        /\ UNCHANGED <<failed, pc, outcome, calls>>
     \/ /\ validate(vsixTask[i].manifest, getInstalled(store, "User"), force)
        /\ vsixTask' = [vsixTask EXCEPT ![i].pc = "install"]
        /\ calls' = calls \cup
             {[delegate |-> "install", task |-> i, vsix |-> vsixs[i],
               id |-> getGalleryExtensionId(vsixTask[i].manifest.publisher,
                                            vsixTask[i].manifest.name),
               version |-> vsixTask[i].manifest.version]}
        /\ UNCHANGED <<failed, installedExtensionsManifests, settled, pc, outcome>>
  /\ UNCHANGED <<store, op, run, args, installed, vsixs, installExtensionInfos, lookup,
                 galleryExtensions, galleryTask, uninstallVars, refreshes>>

\* (mutant) the catch clause of line 185 rethrows the cancellation like any
\* other error
cancelVsix_rethrow(i) ==
  /\ catchVsix(i, "cancelled")
  /\ UNCHANGED installedExtensionsManifests

\* lines 186-188: install was cancelled; installVSIX returns null
cancelVsix(i) ==
  /\ returnVsix(i, Undefined, "cancelled")
  /\ UNCHANGED <<failed, pc, outcome>>

\* line 182 settles: installed, cancelled (lines 186-188) or failed (line 190)
installVSIX_install(i) ==
  /\ pc = "install:vsixs"
  /\ vsixTask[i].pc = "install"
  /\ \/ /\ store' = Installed(store,
                      LocalExtension(
                        getGalleryExtensionId(vsixTask[i].manifest.publisher,
                                              vsixTask[i].manifest.name),
                        vsixTask[i].manifest, "User", FALSE))
        /\ returnVsix(i, vsixTask[i].manifest, "installed")
        /\ UNCHANGED <<failed, pc, outcome>>
     \/ /\ cancelVsix(i)
        /\ UNCHANGED store
     \/ /\ catchVsix(i, InstallError)
        /\ UNCHANGED <<store, installedExtensionsManifests>>
  /\ UNCHANGED <<op, run, args, installed, vsixs, installExtensionInfos, lookup,
                 galleryExtensions, galleryTask, uninstallVars, calls, refreshes>>

\* line 130: Promise.all over the vsix tasks resolves
installExtensions_vsixsDone ==
  /\ pc = "install:vsixs"
  /\ done(vsixTask)
  /\ AfterVsixs(installExtensionInfos, failed, installedExtensionsManifests)
  /\ UNCHANGED <<store, op, run, args, installed, vsixs, installExtensionInfos, failed,
                 installedExtensionsManifests, vsixTask, galleryExtensions, galleryTask,
                 uninstallVars, settled>>


\* ------------------------------------------------------- gallery resolver
lookupsDone(l) ==
  /\ l.batch = "done"
  /\ \A k \in 1..Len(l.pinned) : l.pinned[k] = "done"

\* line 205: result.forEach(extension => galleryExtensions.set(...)), for a
\* result holding at most one extension per identifier
setAll(map, result) ==
  [k \in DOMAIN map \cup {toLowerCase(x.identifier.id) : x \in result} |->
     IF \E x \in result : toLowerCase(x.identifier.id) = k
     THEN CHOOSE x \in result : toLowerCase(x.identifier.id) = k
     ELSE map[k]]

\* what the gallery can answer to getExtensions(ids): the latest version of
\* any of the published extensions among ids
Answers(ids) ==
  SUBSET {GalleryExtension(e, e.latest) :
            e \in UNION {Published(ids[k]) : k \in 1..Len(ids)}}

\* line 204 settles: the batched lookup of the version-less identifiers
getGalleryExtensions_getExtensions ==
  /\ pc = "install:lookups"
  /\ lookup.batch = "pending"
  /\ \/ /\ Reject(GalleryError)
        /\ UNCHANGED <<lookup, galleryExtensions>>
     \/ /\ \E result \in Answers(extensionIds(installExtensionInfos)) :
             galleryExtensions' = setAll(galleryExtensions, result)
        /\ lookup' = [lookup EXCEPT !.batch = "done"]
        /\ UNCHANGED <<pc, outcome>>
  /\ UNCHANGED <<store, op, run, args, installed, vsixs, installExtensionInfos, failed,
                 installedExtensionsManifests, vsixTask, galleryTask, uninstallVars,
                 history>>

\* line 208 settles: the lookup of the k-th version-pinned request
getGalleryExtensions_getCompatibleExtension(k) ==
  /\ pc = "install:lookups"
  /\ lookup.pinned[k] = "pending"
  /\ LET request == extensionsWithIdAndVersion(installExtensionInfos)[k]
     IN \/ /\ Reject(GalleryError)
           /\ UNCHANGED <<lookup, galleryExtensions>>
        \/ /\ lookup' = [lookup EXCEPT !.pinned[k] = "done"]
           /\ UNCHANGED <<galleryExtensions, pc, outcome>>
        \/ /\ \E e \in Published(request.id) :
                /\ request.version \in e.versions
                /\ galleryExtensions' =
                     MapSet(galleryExtensions,
                            toLowerCase(GalleryExtension(e, request.version).identifier.id),
                            GalleryExtension(e, request.version))
           /\ lookup' = [lookup EXCEPT !.pinned[k] = "done"]
           /\ UNCHANGED <<pc, outcome>>
  /\ UNCHANGED <<store, op, run, args, installed, vsixs, installExtensionInfos, failed,
                 installedExtensionsManifests, vsixTask, galleryTask, uninstallVars,
                 history>>

\* -------------------------------------------------- gallery candidates
\* lines 155-158: the task of installExtensionInfos[j] ends in the catch clause
catchGallery(j, error) ==
  /\ failed' = Append(failed, installExtensionInfos[j].id)
  /\ galleryTask' = [galleryTask EXCEPT ![j].pc = "done"]
  /\ settled' = settled \cup {Settled("gallery", j, error)}
  /\ UNCHANGED <<pc, outcome>>

\* lines 151-154: installFromGallery returned `manifest` (or null)
returnGallery(j, manifest, result) ==
  /\ installedExtensionsManifests' =
       IF manifest # Undefined
       THEN Append(installedExtensionsManifests, manifest)
       ELSE installedExtensionsManifests
  /\ galleryTask' = [galleryTask EXCEPT ![j].pc = "done"]
  /\ settled' = settled \cup {Settled("gallery", j, result)}

\* lines 148-149
galleryOf(map, info) ==
  IF toLowerCase(info.id) \in DOMAIN map THEN map[toLowerCase(info.id)] ELSE Undefined

\* lines 159-161 for the candidates without a gallery match, in order
notFound(map, infos) ==
  LET missing == SelectSeq(infos, LAMBDA x : galleryOf(map, x) = Undefined)
  IN [k \in 1..Len(missing) |-> missing[k].id]

\* line 145 resolves; line 147 starts one task per candidate, each running
\* to line 219 (its await) or through lines 159-161
installExtensions_lookupsDone ==
  /\ pc = "install:lookups"
  /\ lookupsDone(lookup)
  /\ pc' = "install:gallery"
  /\ galleryTask' =
       [j \in 1..Len(installExtensionInfos) |->
          IF galleryOf(galleryExtensions, installExtensionInfos[j]) # Undefined
          THEN [pc |-> "getManifest",
                gallery |-> galleryOf(galleryExtensions, installExtensionInfos[j]),
                manifest |-> Undefined]
          ELSE [pc |-> "done", gallery |-> Undefined, manifest |-> Undefined]]
  /\ failed' = failed \o notFound(galleryExtensions, installExtensionInfos)
  /\ settled' = settled \cup
       {Settled("gallery", j, "not found") :
          j \in {n \in 1..Len(installExtensionInfos) :
                   galleryOf(galleryExtensions, installExtensionInfos[n]) = Undefined}}
  /\ UNCHANGED <<store, op, run, args, installed, vsixs, installExtensionInfos,
                 installedExtensionsManifests, vsixTask, lookup, galleryExtensions,
                 uninstallVars, outcome, calls, refreshes>>

\* (mutant) the installed extension is looked up by the exact identifier
\* string instead of areSameExtensions
sameVersionInstalled_exactId(galleryExtension, inst) ==
  \E k \in 1..Len(inst) :
    /\ inst[k].identifier.id = galleryExtension.identifier.id
    /\ galleryExtension.version = inst[k].manifest.version

\* lines 220-225: the candidate is installed at the gallery's version
sameVersionInstalled(galleryExtension, inst) ==
  LET installedExtension == findSame(inst, galleryExtension.identifier)
  IN /\ installedExtension # Undefined
     /\ galleryExtension.version = installedExtension.manifest.version

\* line 219 settles; lines 220-235 run up to the call of installFromGallery
installFromGallery_getManifest(j) ==
  /\ pc = "install:gallery"
  /\ galleryTask[j].pc = "getManifest"
  /\ \/ /\ catchGallery(j, GetManifestError)
        /\ UNCHANGED <<installedExtensionsManifests, calls>>
     \/ /\ sameVersionInstalled(galleryTask[j].gallery, installed)
        /\ returnGallery(j, Undefined, "already installed")
        /\ UNCHANGED <<failed, pc, outcome, calls>>
     \/ /\ ~sameVersionInstalled(galleryTask[j].gallery, installed)
        /\ galleryTask' = [galleryTask EXCEPT
                             ![j].pc = "install",
                             ![j].manifest = GalleryManifest(galleryTask[j].gallery)]
        /\ calls' = calls \cup
             {[delegate |-> "installFromGallery", task |-> j,
               gallery |-> galleryTask[j].gallery,
               installOptions |-> installExtensionInfos[j].installOptions,
               id |-> toLowerCase(galleryTask[j].gallery.identifier.id),
               version |-> galleryTask[j].gallery.version]}
        /\ UNCHANGED <<failed, installedExtensionsManifests, settled, pc, outcome>>
  /\ UNCHANGED <<store, op, run, args, installed, vsixs, installExtensionInfos, vsixTask,
                 lookup, galleryExtensions, uninstallVars, refreshes>>

\* lines 239-241: installFromGallery was cancelled; the method returns null
cancelGallery(j) ==
  /\ returnGallery(j, Undefined, "cancelled")
  /\ UNCHANGED <<failed, pc, outcome>>

\* line 235 settles: installed, cancelled (lines 239-241) or failed (line 243)
installFromGallery_install(j) ==
  /\ pc = "install:gallery"
  /\ galleryTask[j].pc = "install"
  /\ \/ /\ store' = Installed(store,
                      LocalExtension(galleryTask[j].gallery.identifier.id,
                                     galleryTask[j].manifest, "User",
                                     installExtensionInfos[j].installOptions.isBuiltin))
        /\ returnGallery(j, galleryTask[j].manifest, "installed")
        /\ UNCHANGED <<failed, pc, outcome>>
     \/ /\ cancelGallery(j)
        /\ UNCHANGED store
     \/ /\ catchGallery(j, InstallError)
        /\ UNCHANGED <<store, installedExtensionsManifests>>
  /\ UNCHANGED <<op, run, args, installed, vsixs, installExtensionInfos, vsixTask, lookup,
                 galleryExtensions, uninstallVars, calls, refreshes>>

\* line 147: Promise.all over the candidates' tasks resolves; lines 167-173
installExtensions_galleryDone ==
  /\ pc = "install:gallery"
  /\ done(galleryTask)
  /\ AfterPools(failed, installedExtensionsManifests)
  /\ UNCHANGED <<store, op, run, args, installVars, uninstallVars, calls, settled>>

\* line 168 or line 301 settles
updateLocalizationsCache_done ==
  /\ pc \in {"install:update", "uninstall:update"}
  /\ \/ Finish(failed)
     \/ Reject(UpdateError)
  /\ UNCHANGED <<store, op, run, args, installVars, uninstallVars, history>>


\* ---------------------------------------------------- uninstallExtensions
\* (mutant) force lifts the protection of System extensions too
protected_unlessForce(first, frc) == (first.type = "System" \/ first.isBuiltin) /\ ~frc

\* lines 283 and 287: the first match is a System extension, or is marked
\* built-in by the user and force is not set
protected(first, frc) == first.type = "System" \/ (first.isBuiltin /\ ~frc)

\* (mutant) the identifiers are compared as strings, as locateExtension does
matching_exactId(inst, extId) == SelectSeq(inst, LAMBDA e : e.identifier.id = extId)

\* (mutant) the filter runs over the list as it was before the batch
\* uninstalled anything
matching_stale(inst, extId) ==
  SelectSeq(uninstalledExtensions \o inst,
            LAMBDA e : areSameExtensions(e.identifier, [id |-> extId]))

\* line 278
matching(inst, extId) ==
  SelectSeq(inst, LAMBDA e : areSameExtensions(e.identifier, [id |-> extId]))

UninstallCall(ref, k, extension) ==
  [delegate |-> "uninstall", reference |-> ref, position |-> k, extension |-> extension]

\* line 275: the loop takes its first reference, or lines 300-302 run at once
StartUninstall(exts) ==
  IF exts = <<>>
  THEN /\ pc' = "done"
       /\ outcome' = Returned
       /\ index' = 0
  ELSE /\ pc' = "uninstall:getExtensionId"
       /\ outcome' = "pending"
       /\ index' = 1

\* lines 300-302, run when the loop is through
AfterLoop(uninstalled) ==
  IF \E k \in 1..Len(uninstalled) : isLanguagePackExtension(uninstalled[k].manifest)
  THEN /\ pc' = "uninstall:update"
       /\ refreshes' = refreshes + 1
       /\ outcome' = outcome
  ELSE /\ pc' = "done"
       /\ outcome' = Returned
       /\ refreshes' = refreshes

\* the command line calls uninstallExtensions
uninstallExtensions_call ==
  /\ pc = "idle"
  /\ \E exts \in SeqUpTo(UninstallReferences, MaxRefs), frc \in BOOLEAN :
       /\ extensions' = exts
       /\ force' = frc
       /\ StartUninstall(exts)
  /\ op' = "uninstall"
  /\ run' = 1
  /\ UNCHANGED <<store, builtinExtensionIds, isMachineScoped, installVars, id,
                 extensionsToUninstall, position, uninstalledExtensions, history>>

\* line 276: getExtensionId settles; line 277 calls getInstalled
uninstallExtensions_getExtensionId ==
  /\ pc = "uninstall:getExtensionId"
  /\ LET extension == extensions[index]
     IN \/ /\ extension.uri
           /\ Reject(GetManifestError)
           /\ UNCHANGED id
        \/ /\ extension.uri
           /\ PackageManifest(extension.value) = Undefined
           /\ Reject(TypeError)
           /\ UNCHANGED id
        \/ /\ extension.uri
           /\ PackageManifest(extension.value) # Undefined
           /\ id' = getId(PackageManifest(extension.value), FALSE)
           /\ pc' = "uninstall:getInstalled"
           /\ UNCHANGED outcome
        \/ /\ ~extension.uri
           /\ id' = extension.value
           /\ pc' = "uninstall:getInstalled"
           /\ UNCHANGED outcome
  /\ UNCHANGED <<store, op, run, args, installVars, index, extensionsToUninstall,
                 position, uninstalledExtensions, history>>

\* line 277 settles; lines 278-293 run up to the first call of uninstall
uninstallExtensions_getInstalled ==
  /\ pc = "uninstall:getInstalled"
  /\ \/ /\ Reject(GetInstalledError)
        /\ UNCHANGED <<extensionsToUninstall, position, calls>>
     \/ /\ matching(getInstalled(store, AnyType), id) = <<>>
        /\ extensionsToUninstall' = matching(getInstalled(store, AnyType), id)
        /\ Reject(NotInstalledError)
        /\ UNCHANGED <<position, calls>>
     \/ /\ matching(getInstalled(store, AnyType), id) # <<>>
        /\ protected(matching(getInstalled(store, AnyType), id)[1], force)
        /\ pc' = "done"
        /\ outcome' = Returned
        /\ extensionsToUninstall' = matching(getInstalled(store, AnyType), id)
        /\ UNCHANGED <<position, calls>>
     \/ /\ matching(getInstalled(store, AnyType), id) # <<>>
        /\ ~protected(matching(getInstalled(store, AnyType), id)[1], force)
        /\ extensionsToUninstall' = matching(getInstalled(store, AnyType), id)
        /\ position' = 1
        /\ calls' = calls \cup
             {UninstallCall(index, 1, matching(getInstalled(store, AnyType), id)[1])}
        /\ pc' = "uninstall:uninstall"
        /\ UNCHANGED outcome
  /\ UNCHANGED <<store, op, run, args, installVars, index, id, uninstalledExtensions,
                 settled, refreshes>>

\* line 293 throws: nothing in uninstallExtensions catches the error
uninstallRejected ==
  /\ Reject(UninstallError)
  /\ settled' = settled \cup {Settled("uninstall", <<index, position>>, UninstallError)}
  /\ UNCHANGED <<store, index, position, uninstalledExtensions, calls, refreshes>>

\* line 293 settles; the loops of lines 292 and 275 go on, or lines 300-302 run
uninstallExtensions_uninstall ==
  /\ pc = "uninstall:uninstall"
  /\ \/ uninstallRejected
     \/ /\ store' = Uninstalled(store, extensionsToUninstall[position])
        /\ uninstalledExtensions' =
             Append(uninstalledExtensions, extensionsToUninstall[position])
        /\ IF position < Len(extensionsToUninstall)
           THEN /\ position' = position + 1
                /\ calls' = calls \cup
                     {UninstallCall(index, position + 1,
                                    extensionsToUninstall[position + 1])}
                /\ UNCHANGED <<pc, outcome, index, refreshes>>
           ELSE /\ UNCHANGED <<position, calls>>
                /\ IF index < Len(extensions)
                   THEN /\ index' = index + 1
                        /\ pc' = "uninstall:getExtensionId"
                        /\ UNCHANGED <<outcome, refreshes>>
                   ELSE /\ AfterLoop(Append(uninstalledExtensions,
                                            extensionsToUninstall[position]))
                        /\ UNCHANGED index
        /\ UNCHANGED settled
  /\ UNCHANGED <<op, run, args, installVars, id, extensionsToUninstall>>

\* ------------------------------------------------------------ the system
\* the same install command is run again
Rerun ==
  /\ pc = "done"
  /\ op = "install"
  /\ run < MaxRuns
  /\ run' = run + 1
  /\ installed' = <<>>
  /\ vsixs' = <<>>
  /\ installExtensionInfos' = <<>>
  /\ failed' = <<>>
  /\ installedExtensionsManifests' = <<>>
  /\ vsixTask' = NoTask
  /\ lookup' = NoLookup
  /\ galleryExtensions' = EmptyMap
  /\ galleryTask' = NoTask
  /\ calls' = {}
  /\ settled' = {}
  /\ refreshes' = 0
  /\ pc' = "install:getInstalled"
  /\ outcome' = "pending"
  /\ UNCHANGED <<store, op, args, uninstallVars>>

NextInstall ==
  \/ installExtensions_call
  \/ installExtensions_getInstalled
  \/ \E i \in 1..Len(vsixTask) : installVSIX_getManifest(i)
  \/ \E i \in 1..Len(vsixTask) : installVSIX_validate(i)
  \/ \E i \in 1..Len(vsixTask) : installVSIX_install(i)
  \/ installExtensions_vsixsDone
  \/ getGalleryExtensions_getExtensions
  \/ \E k \in 1..Len(lookup.pinned) : getGalleryExtensions_getCompatibleExtension(k)
  \/ installExtensions_lookupsDone
  \/ \E j \in 1..Len(galleryTask) : installFromGallery_getManifest(j)
  \/ \E j \in 1..Len(galleryTask) : installFromGallery_install(j)
  \/ installExtensions_galleryDone
  \/ updateLocalizationsCache_done

NextUninstall ==
  \/ uninstallExtensions_call
  \/ uninstallExtensions_getExtensionId
  \/ uninstallExtensions_getInstalled
  \/ uninstallExtensions_uninstall
  \/ updateLocalizationsCache_done

NextRerun ==
  \/ NextInstall
  \/ Rerun

\* one call of installExtensions
SpecInstall == InitInstall /\ [][NextInstall]_vars

\* one call of uninstallExtensions
SpecUninstall == InitUninstall /\ [][NextUninstall]_vars

\* an install command run on an empty store, and run again
SpecRerun == InitRerun /\ [][NextRerun]_vars

\* -------------------------------------------------- the parser on its own
\* the pieces the references handed to getIdAndVersion are made of
Tokens ==
  {<<"p", ".", "A">>, <<"p">>, <<".">>, <<"@">>, <<"@", "1", ".", "0", ".", "0">>,
   <<"1", ".", "0">>, <<"-", "b">>, <<"\n">>, <<"\r">>, <<"\\u2028">>,
   <<"\\u2029">>}

RECURSIVE Flatten(_)
Flatten(ts) == IF ts = <<>> THEN <<>> ELSE Head(ts) \o Flatten(Tail(ts))

ParserInputs == {Flatten(ts) : ts \in SeqUpTo(Tokens, MaxTokens)}

\* a command line with one reference, of any shape
InitParse ==
  /\ store = <<>>
  /\ op = "none"
  /\ pc = "idle"
  /\ run = 0
  /\ extensions \in {<<Str(reference)>> : reference \in ParserInputs}
  /\ builtinExtensionIds = <<>>
  /\ isMachineScoped = FALSE
  /\ force = FALSE
  /\ installed = <<>>
  /\ vsixs = <<>>
  /\ installExtensionInfos = <<>>
  /\ failed = <<>>
  /\ installedExtensionsManifests = <<>>
  /\ vsixTask = NoTask
  /\ lookup = NoLookup
  /\ galleryExtensions = EmptyMap
  /\ galleryTask = NoTask
  /\ index = 0
  /\ id = Undefined
  /\ extensionsToUninstall = <<>>
  /\ position = 0
  /\ uninstalledExtensions = <<>>
  /\ outcome = "pending"
  /\ calls = {}
  /\ settled = {}
  /\ refreshes = 0

\* lines 116-118 with nothing installed: the reference is parsed and its
\* identifier and version are kept
getIdAndVersion_call ==
  /\ pc = "idle"
  /\ installExtensionInfos' =
       <<InstallExtensionInfo(extensions[1].value, FALSE, isMachineScoped)>>
  /\ op' = "parse"
  /\ pc' = "done"
  /\ outcome' = Returned
  /\ UNCHANGED <<store, run, args, installed, vsixs, failed,
                 installedExtensionsManifests, vsixTask, lookup, galleryExtensions,
                 galleryTask, uninstallVars, calls, settled, refreshes>>

NextParse == getIdAndVersion_call

SpecParse == InitParse /\ [][NextParse]_vars


\* ================================================================ claims
Range(seq) == {seq[k] : k \in 1..Len(seq)}

\* the install tasks of the batch that ended as `result`
Ended(pool, result) == {x \in settled : x.pool = pool /\ x.result = result}

\* every planned item of the batch went through its task
AllVsixsAttempted == Len(vsixTask) = Len(vsixs) /\ done(vsixTask)
AllCandidatesAttempted ==
  Len(galleryTask) = Len(installExtensionInfos) /\ done(galleryTask)

\* installExtensions ended after line 95
BatchEnded == op = "install" /\ pc = "done" /\ outcome # GetInstalledError

\* C1: failure isolation in installExtensions.  An error raised by the
\* install of one item never ends the batch and never keeps a sibling from
\* being attempted: when the batch ends, every local package went through
\* its task, and so did every gallery candidate unless the gallery
\* resolution itself was rejected; and every item whose install delegate
\* succeeded has its manifest in installedExtensionsManifests, also when the
\* batch ends with the aggregate error.
C1_FailureIsolation ==
  /\ outcome \notin {InstallError, GetManifestError, InvalidVsixError}
  /\ \A x \in Ended("vsix", "installed") :
       vsixTask[x.task].manifest \in Range(installedExtensionsManifests)
  /\ \A x \in Ended("gallery", "installed") :
       galleryTask[x.task].manifest \in Range(installedExtensionsManifests)
  /\ BatchEnded => AllVsixsAttempted
  /\ (BatchEnded /\ outcome # GalleryError) => AllCandidatesAttempted

\* a batch that ended with the aggregate error: the install of a local
\* package and of a gallery candidate failed, and the sibling candidate was
\* installed all the same
C1_Witness ==
  /\ BatchEnded
  /\ outcome = AggregateError
  /\ Ended("vsix", InstallError) # {}
  /\ Ended("gallery", InstallError) # {}
  /\ Ended("gallery", "installed") # {}
  /\ Len(failed) = 2
  /\ Len(installedExtensionsManifests) = 1

\* C2: installExtensions ends with the aggregate error exactly when the
\* failed set is non-empty and returns otherwise, and whatever the outcome
\* of the gallery and store calls of the batch it ends only after every
\* requested item has been attempted.
C2_AggregateAfterAll ==
  BatchEnded =>
    /\ outcome = IF failed # <<>> THEN AggregateError ELSE Returned
    /\ AllVsixsAttempted
    /\ AllCandidatesAttempted

\* C3: with force not set, no install delegate is invoked for a version
\* strictly lower than the version of the same extension in the installed
\* set, for local packages and for version-pinned gallery references alike.
C3_NoDowngrade ==
  ~force =>
    \A c \in calls :
      c.delegate \in {"install", "installFromGallery"} =>
        \A k \in 1..Len(installed) :
          areSameExtensions(installed[k].identifier, [id |-> c.id])
            => ~gt(installed[k].manifest.version, c.version)

\* C4: uninstallExtensions never calls the uninstall delegate on a System
\* entry, whatever force is and whatever the installed list holds.
C4_SystemNeverUninstalled ==
  \A c \in calls : c.delegate = "uninstall" => c.extension.type # "System"


\* the identifiers of the version-less references of the command line that
\* are the same extension as an entry of the installed snapshot
References ==
  {extensions[k].value : k \in {n \in 1..Len(extensions) : ~extensions[n].uri}}
    \cup Range(builtinExtensionIds)
InstalledVersionless ==
  {getIdAndVersion(r)[1] :
     r \in {x \in References :
              /\ getIdAndVersion(x)[2] = Undefined
              /\ \E k \in 1..Len(installed) :
                   toLowerCase(installed[k].identifier.id)
                     = toLowerCase(getIdAndVersion(x)[1])}}

IsVersionless(info, extId) == info.id = extId /\ info.version = Undefined

\* C5: with force not set, a reference given without a version whose
\* identifier is, whatever its casing, the identifier of an installed
\* extension is dropped by the planner: it becomes no candidate, the batched
\* gallery lookup does not carry it, installFromGallery is not invoked for
\* it, no task ends for it (neither success nor failure), and its identifier
\* enters the failed set only through a version-pinned sibling.
C5_PlannerDrops ==
  (op = "install" /\ ~force) =>
    \A d \in InstalledVersionless :
      /\ \A j \in 1..Len(installExtensionInfos) :
           ~IsVersionless(installExtensionInfos[j], d)
      /\ \A c \in calls :
           /\ c.delegate = "getExtensions" => d \notin Range(c.ids)
           /\ c.delegate = "installFromGallery" =>
                ~IsVersionless(installExtensionInfos[c.task], d)
      /\ \A x \in settled :
           x.pool = "gallery" => ~IsVersionless(installExtensionInfos[x.task], d)
      /\ d \in Range(failed) =>
           \E j \in 1..Len(installExtensionInfos) :
             /\ installExtensionInfos[j].id = d
             /\ installExtensionInfos[j].version # Undefined

\* the batch ended without force; a version-less reference named an
\* installed extension in another casing and was dropped, while the other
\* reference was installed from the gallery
C5_Witness ==
  /\ BatchEnded
  /\ ~force
  /\ outcome = Returned
  /\ \E d \in InstalledVersionless :
       \E k \in 1..Len(installed) :
         /\ toLowerCase(installed[k].identifier.id) = d
         /\ installed[k].identifier.id # d
  /\ Len(extensions) = 2
  /\ Ended("gallery", "installed") # {}

\* the candidates whose resolved gallery version is the version of the same
\* extension in the installed snapshot
AtInstalledVersion ==
  {j \in 1..Len(galleryTask) :
     /\ galleryTask[j].gallery # Undefined
     /\ \E k \in 1..Len(installed) :
          /\ toLowerCase(installed[k].identifier.id)
               = toLowerCase(galleryTask[j].gallery.identifier.id)
          /\ installed[k].manifest.version = galleryTask[j].gallery.version}

\* C6 (as claimed): a gallery candidate whose resolved gallery version is
\* the installed version never has installFromGallery invoked on the store
\* and counts as neither success nor failure.
C6_NeitherSuccessNorFailure ==
  \A j \in AtInstalledVersion :
    /\ \A c \in calls : c.delegate = "installFromGallery" => c.task # j
    /\ \A x \in settled :
         (x.pool = "gallery" /\ x.task = j) => x.result = "already installed"

\* C6 (amended): for such a candidate installFromGallery is never invoked on
\* the store and it is never a success; it is a failure exactly when the
\* gallery's getManifest call (line 219, made before the versions are
\* compared) is rejected, and then its identifier is in the failed set.
\* This covers the version-less candidate of a run with force, and of a
\* re-run that resolves it to the version the run before installed.
C6_SameVersionSkipped ==
  \A j \in AtInstalledVersion :
    /\ \A c \in calls : c.delegate = "installFromGallery" => c.task # j
    /\ \A x \in settled :
         (x.pool = "gallery" /\ x.task = j) =>
           \/ x.result = "already installed"
           \/ /\ x.result = GetManifestError
              /\ installExtensionInfos[j].id \in Range(failed)

\* the command was run again with force on the store its first run
\* installed into: the version-less candidate resolved to the installed
\* version, was skipped, and the re-run returned
C6_Witness ==
  /\ run = 2
  /\ force
  /\ BatchEnded
  /\ outcome = Returned
  /\ \E j \in AtInstalledVersion :
       /\ installExtensionInfos[j].version = Undefined
       /\ Settled("gallery", j, "already installed") \in settled
       /\ \E k \in 1..Len(installed) :
            /\ areSameExtensions(installed[k].identifier, galleryTask[j].gallery.identifier)
            /\ installed[k].identifier.id # galleryTask[j].gallery.identifier.id

\* C7 (as claimed): when the manifest of a local package is absent, the
\* validator's error reaches the caller of installExtensions unwrapped and
\* ends the operation; it is not recorded in the failed set.
C7_InvalidVsixIsFatal ==
  \A x \in Ended("vsix", InvalidVsixError) :
    /\ pc = "done"
    /\ outcome = InvalidVsixError
    /\ vsixs[x.task] \notin Range(failed)

\* C7 (amended): the validator's error is caught at the boundary of the
\* package's task (line 136): the package's location is recorded in the
\* failed set, the error never reaches the caller unwrapped, the sibling
\* packages and the gallery candidates are still attempted, and a batch
\* that runs to line 171 ends with the aggregate error.
C7_InvalidVsixIsRecorded ==
  \A x \in Ended("vsix", InvalidVsixError) :
    /\ vsixs[x.task] \in Range(failed)
    /\ outcome # InvalidVsixError
    /\ BatchEnded => AllVsixsAttempted
    /\ (BatchEnded /\ outcome # GalleryError) => AllCandidatesAttempted
    /\ (BatchEnded /\ outcome \notin {GalleryError, UpdateError})
         => outcome = AggregateError

\* the package without a manifest was recorded as failed while its sibling
\* package and a gallery candidate were installed
C7_Witness ==
  /\ BatchEnded
  /\ outcome = AggregateError
  /\ Ended("vsix", InvalidVsixError) # {}
  /\ Ended("vsix", "installed") # {}
  /\ Ended("gallery", "installed") # {}
  /\ failed = <<PkgBad>>

\* C8: an error of the uninstall delegate is isolated to its item: it is
\* recorded as a failure and does not end the batch.
C8_UninstallErrorIsolated ==
  Ended("uninstall", UninstallError) # {} =>
    /\ outcome # UninstallError
    /\ failed # <<>>

LanguagePackUninstalled ==
  \E k \in 1..Len(uninstalledExtensions) :
    isLanguagePackExtension(uninstalledExtensions[k].manifest)

\* C9: when uninstallExtensions returns, the localization cache was
\* refreshed if and only if an entry uninstalled by the batch is a language
\* pack, also when a protected extension cut the batch short.
C9_RefreshOnUninstall ==
  (op = "uninstall" /\ pc = "done" /\ outcome = Returned) =>
    (refreshes > 0 <=> LanguagePackUninstalled)

LanguagePackInstalled ==
  \E k \in 1..Len(installedExtensionsManifests) :
    isLanguagePackExtension(installedExtensionsManifests[k])

\* C10: in installExtensions the localization cache is refreshed exactly
\* when installedExtensionsManifests holds a language-pack manifest, at most
\* once per batch, only after every task of both pools has ended, and
\* before the aggregate error is raised.
C10_RefreshOnInstall ==
  /\ refreshes <= 1
  /\ refreshes = 1 =>
       /\ AllVsixsAttempted
       /\ installExtensionInfos # <<>> => AllCandidatesAttempted
       /\ LanguagePackInstalled
  /\ BatchEnded => (refreshes = 1 <=> LanguagePackInstalled)


UninstallCalls == {c \in calls : c.delegate = "uninstall"}
CallsFor(r) == {c \in UninstallCalls : c.reference = r}

\* the identifier the r-th reference of uninstallExtensions stands for
ReferenceId(r) ==
  IF extensions[r].uri
  THEN getId(PackageManifest(extensions[r].value), FALSE)
  ELSE extensions[r].value

StoreHolds(extId) ==
  \E k \in 1..Len(store) : toLowerCase(store[k].identifier.id) = toLowerCase(extId)

\* C11: when uninstallExtensions ends with the not-installed error, the
\* store holds no entry for the reference it stopped at, the uninstall
\* delegate was called neither for that reference nor for a later one, and
\* every entry uninstalled for the references before it stays uninstalled.
C11_NotInstalledAborts ==
  outcome = NotInstalledError =>
    /\ pc = "done"
    /\ ~StoreHolds(id)
    /\ \A c \in UninstallCalls : c.reference < index
    /\ \A r \in 1..(index - 1) : CallsFor(r) # {}
    /\ Cardinality(UninstallCalls) = Len(uninstalledExtensions)
    /\ \A k \in 1..Len(uninstalledExtensions) :
         uninstalledExtensions[k] \notin Range(store)

\* the second reference named an extension that is not installed, after
\* the first reference was uninstalled
C11_Witness ==
  /\ outcome = NotInstalledError
  /\ index = 2
  /\ Len(uninstalledExtensions) >= 1
  /\ store # <<>>

\* the list of line 278 for the reference at `index` is known
Decided ==
  /\ op = "uninstall"
  /\ index >= 1
  /\ extensionsToUninstall # <<>>
  /\ \/ pc \in {"uninstall:uninstall", "uninstall:update"}
     \/ pc = "done" /\ outcome \in {Returned, UninstallError, UpdateError}

FirstIsProtected ==
  \/ extensionsToUninstall[1].type = "System"
  \/ extensionsToUninstall[1].isBuiltin /\ ~force

\* C12: when the first entry matching a reference is a System entry, or is
\* marked built-in by the user and force is not set, uninstallExtensions
\* returns without error and without a call of the uninstall delegate for
\* that or a later reference.  Otherwise the delegate is called for the
\* matching entries in order, once each, and when the reference is through
\* it was called for every one of them: the store holds no entry of a
\* reference the loop has passed.
C12_Protection ==
  /\ Decided =>
       IF FirstIsProtected
       THEN /\ pc = "done"
            /\ outcome = Returned
            /\ \A c \in UninstallCalls : c.reference < index
       ELSE /\ \A c \in CallsFor(index) :
                 /\ c.position \in 1..Len(extensionsToUninstall)
                 /\ c.extension = extensionsToUninstall[c.position]
            /\ {c.position : c \in CallsFor(index)} = 1..position
            /\ Cardinality(CallsFor(index)) = position
            /\ (pc = "uninstall:update" \/ (pc = "done" /\ outcome # UninstallError))
                 => position = Len(extensionsToUninstall)
  /\ op = "uninstall" =>
       \A r \in 1..(index - 1) :
         /\ CallsFor(r) # {}
         /\ ~StoreHolds(ReferenceId(r))
         /\ Cardinality({c.extension : c \in CallsFor(r)}) = Cardinality(CallsFor(r))

\* the first reference was uninstalled; the second one is marked built-in
\* by the user and force is not set: the method returned early
C12_Witness ==
  /\ Decided
  /\ pc = "done"
  /\ outcome = Returned
  /\ index = 2
  /\ ~force
  /\ extensionsToUninstall[1].type = "User"
  /\ extensionsToUninstall[1].isBuiltin
  /\ CallsFor(1) # {}
  /\ CallsFor(2) = {}

\* the calls of the uninstall delegate made before call c, in the order of
\* the references and of the matching entries
Before(c) ==
  {b \in UninstallCalls :
     \/ b.reference < c.reference
     \/ b.reference = c.reference /\ b.position < c.position}

Unsettled ==
  Cardinality(UninstallCalls) - Len(uninstalledExtensions)
    - Cardinality(Ended("uninstall", UninstallError))

\* C18: uninstallExtensions is strictly sequential: the uninstall delegate
\* is called reference by reference in input order, at most one call is
\* unsettled at any time, the entries are uninstalled in the order of the
\* calls, and no reference is decided on an entry that an earlier call of
\* the batch has uninstalled: the list of the next reference is fetched
\* when the uninstalls of the one before are through.
C18_Sequential ==
  op = "uninstall" =>
    /\ Unsettled \in {0, 1}
    /\ Unsettled = 1 <=> pc = "uninstall:uninstall"
    /\ pc \in {"uninstall:getExtensionId", "uninstall:getInstalled"} =>
         /\ Cardinality(UninstallCalls) = Len(uninstalledExtensions)
         /\ \A c \in UninstallCalls : c.reference < index
    /\ \A c \in UninstallCalls :
         /\ c.reference <= index
         /\ Cardinality(Before(c)) < Len(uninstalledExtensions) =>
              uninstalledExtensions[Cardinality(Before(c)) + 1] = c.extension
         /\ \A b \in Before(c) : b.extension # c.extension
    /\ pc = "uninstall:uninstall" => extensionsToUninstall[position] \in Range(store)

\* both references name the same extension: the list fetched for the
\* second one no longer holds the entries uninstalled for the first
C18_Witness ==
  /\ op = "uninstall"
  /\ index = 2
  /\ outcome = NotInstalledError
  /\ toLowerCase(ReferenceId(1)) = toLowerCase(ReferenceId(2))
  /\ Len(uninstalledExtensions) >= 1

\* how the tasks that put an entry in the failed set ended
Failures ==
  {InstallError, GetManifestError, GetInstalledError, InvalidVsixError, "not found"}

\* C13: a cancelled install (of a local package or from the gallery) adds
\* the item neither to installedExtensionsManifests nor to the failed set:
\* the manifests are those of the tasks that installed, the failed entries
\* those of the tasks that failed; an install delegate's error puts the
\* package's location or the candidate's identifier in the failed set; and
\* a batch in which every task ended installed or cancelled, with no lookup
\* or refresh error, returns successfully.
C13_CancellationIsSoft ==
  /\ Len(installedExtensionsManifests)
       = Cardinality({x \in settled : x.result = "installed"})
  /\ Len(failed) = Cardinality({x \in settled : x.result \in Failures})
  /\ \A x \in Ended("vsix", InstallError) : vsixs[x.task] \in Range(failed)
  /\ \A x \in Ended("gallery", InstallError) :
       installExtensionInfos[x.task].id \in Range(failed)
  /\ (/\ BatchEnded
      /\ outcome \notin {GalleryError, UpdateError}
      /\ \A x \in settled : x.result \in {"installed", "cancelled"})
       => outcome = Returned /\ failed = <<>>

\* a package and a gallery candidate were cancelled, a third item was
\* installed, and the batch returned
C13_Witness ==
  /\ BatchEnded
  /\ outcome = Returned
  /\ Ended("vsix", "cancelled") # {}
  /\ Ended("gallery", "cancelled") # {}
  /\ Ended("gallery", "installed") # {}
  /\ Len(installedExtensionsManifests) = 1

\* <identifier>: a non-empty publisher, a '.', a non-empty name
IsIdentifier(s) ==
  \E d \in 2..(Len(s) - 1) : s[d] = "." /\ \A i \in 1..(d - 1) : s[i] # "."

Numbers(s, a, b) == a <= b /\ \A k \in a..b : s[k] \in Digits

\* <major>.<minor>.<patch>[-<prerelease>]
IsVersion(s) ==
  \E i, j, e \in 1..Len(s) :
    /\ Numbers(s, 1, i - 1) /\ s[i] = "."
    /\ Numbers(s, i + 1, j - 1) /\ s[j] = "."
    /\ Numbers(s, j + 1, e)
    /\ (e = Len(s) \/ s[e + 1] = "-")

\* s holds a line feed, a carriage return, U+2028 or U+2029
HasLineBreak(s) == \E k \in 1..Len(s) : s[k] \in {"\n", "\r", "\\u2028", "\\u2029"}

\* the '@' of s at which s has the form <identifier>@<version>
FormAt(s) ==
  {k \in 1..Len(s) :
     /\ s[k] = "@"
     /\ IsIdentifier(SubSeq(s, 1, k - 1))
     /\ IsVersion(SubSeq(s, k + 1, Len(s)))}

\* the same, for an identifier and a version that getIdAndVersion accepts:
\* none of these four characters after the publisher
FormWithoutBreakAt(s) ==
  {k \in FormAt(s) :
     LET d == CHOOSE n \in 1..k : s[n] = "." /\ \A i \in 1..(n - 1) : s[i] # "."
     IN ~HasLineBreak(SubSeq(s, d + 1, Len(s)))}

Last(S) == CHOOSE k \in S : \A m \in S : m <= k

\* what the claim expects of getIdAndVersion(s), given the places where s
\* may be split; the identifier is handed through adoptToGalleryExtensionId
Expected(s, splits) ==
  IF splits # {}
  THEN [id |-> adoptToGalleryExtensionId(SubSeq(s, 1, Last(splits) - 1)),
        version |-> SubSeq(s, Last(splits) + 1, Len(s))]
  ELSE [id |-> adoptToGalleryExtensionId(s), version |-> Undefined]

Parsed == [id |-> installExtensionInfos[1].id, version |-> installExtensionInfos[1].version]

\* C14 (as claimed): for every string, getIdAndVersion returns a version
\* exactly when the string has the form <identifier>@<major>.<minor>.<patch>
\* [-<prerelease>]; the identifier is then the part before the last such
\* '@' and the version the part after it; for every other string the whole
\* string is the identifier and there is no version.
C14_Grammar ==
  (op = "parse" /\ pc = "done") =>
    Parsed = Expected(extensions[1].value, FormAt(extensions[1].value))

\* C14 (amended): the same for the strings of that form whose name and
\* version hold no line terminator (line feed, carriage return, U+2028,
\* U+2029); a string with a line terminator after the publisher's '.' is an
\* identifier without version.
C14_GrammarWithoutLineBreak ==
  (op = "parse" /\ pc = "done") =>
    Parsed = Expected(extensions[1].value, FormWithoutBreakAt(extensions[1].value))

\* a reference with two places to split it: the version is the part after
\* the last one, the identifier came out in lower case
C14_Witness ==
  /\ op = "parse"
  /\ pc = "done"
  /\ Cardinality(FormWithoutBreakAt(extensions[1].value)) = 2
  /\ Parsed.version = <<"1", ".", "0", ".", "0">>
  /\ Parsed.id = <<"p", ".", "a", "@", "1", ".", "0", ".", "0", "-", "b">>

\* `list` holds a User extension that is the extension of `manifest` at a
\* strictly greater version
NewerIn(list, manifest) ==
  \E k \in 1..Len(list) :
    /\ list[k].type = "User"
    /\ toLowerCase(list[k].identifier.id)
         = toLowerCase(Dot(manifest.publisher, manifest.name))
    /\ gt(list[k].manifest.version, manifest.version)

SameVersionIn(list, galleryExtension) ==
  \E k \in 1..Len(list) :
    /\ toLowerCase(list[k].identifier.id) = toLowerCase(galleryExtension.identifier.id)
    /\ list[k].manifest.version = galleryExtension.version

\* the already-installed decisions for the gallery candidates are those
\* the snapshot of line 95 gives
GalleryAgainstSnapshot ==
  /\ \A x \in Ended("gallery", "already installed") :
       SameVersionIn(installed, galleryTask[x.task].gallery)
  /\ \A c \in calls :
       c.delegate = "installFromGallery" => ~SameVersionIn(installed, c.gallery)

\* C15 (as claimed): every decision of an install batch, downgrade
\* validation of the local packages included, is the one the snapshot read
\* at line 95 gives.
C15_SingleSnapshot ==
  /\ GalleryAgainstSnapshot
  /\ \A x \in Ended("vsix", "downgrade") :
       NewerIn(installed, vsixTask[x.task].manifest) /\ ~force
  /\ \A c \in calls :
       c.delegate = "install" =>
         ~(NewerIn(installed, vsixTask[c.task].manifest) /\ ~force)

\* a step in which validate decides for the package of task i (line 257)
Allowed(i) == vsixTask[i].pc = "validate" /\ vsixTask'[i].pc = "install"
Denied(i) ==
  /\ vsixTask[i].pc = "validate"
  /\ Settled("vsix", i, "downgrade") \in settled'

\* C15 (amended): the list read at line 95 stays the batch's snapshot and
\* decides planning and the already-installed test of the gallery
\* candidates; validate reads the installed list again for every local
\* package (line 254) and decides downgrade protection on the store as it
\* is at that moment, installs of the batch's other packages included.
C15_SnapshotAndRefetch ==
  /\ []GalleryAgainstSnapshot
  /\ [][/\ pc \in {"install:vsixs", "install:lookups", "install:gallery"}
             => installed' = installed
        /\ \A i \in 1..Len(vsixTask) :
             /\ Allowed(i) => ~(NewerIn(store, vsixTask[i].manifest) /\ ~force)
             /\ Denied(i) => NewerIn(store, vsixTask[i].manifest) /\ ~force]_vars

\* a package was refused as a downgrade of a version that the batch itself
\* installed: the snapshot of line 95 holds no newer version
C15_Witness ==
  /\ pc = "install:vsixs"
  /\ \E x \in Ended("vsix", "downgrade") :
       /\ ~NewerIn(installed, vsixTask[x.task].manifest)
       /\ NewerIn(store, vsixTask[x.task].manifest)
  /\ Ended("vsix", "installed") # {}

\* a task of the local-package pool has not ended yet
VsixIncomplete == \E i \in 1..Len(vsixTask) : vsixTask[i].pc # "done"

\* a gallery lookup or a gallery candidate's install is under way
GalleryInProgress ==
  \/ lookup.batch = "pending"
  \/ \E k \in 1..Len(lookup.pinned) : lookup.pinned[k] = "pending"
  \/ \E j \in 1..Len(galleryTask) : galleryTask[j].pc # "done"

GalleryCalls ==
  {c \in calls :
     c.delegate \in {"getExtensions", "getCompatibleExtension", "installFromGallery"}}

\* C16 (as claimed): the two pools run concurrently: in a batch with local
\* packages and gallery candidates the gallery side does not wait for the
\* local packages, its lookups are under way while the local-package tasks
\* run.
C16_PoolsConcurrent ==
  (op = "install" /\ VsixIncomplete /\ installExtensionInfos # <<>>)
    => GalleryCalls # {}

\* C16 (amended): the pools run one after the other: no gallery lookup and
\* no gallery candidate's install is started or under way while a
\* local-package task of the batch has not ended.
C16_PoolsSequential ==
  op = "install" =>
    /\ ~(GalleryInProgress /\ VsixIncomplete)
    /\ GalleryCalls # {} => ~VsixIncomplete

\* a gallery candidate's install is under way in a batch whose local
\* packages have all ended, one of them installed
C16_Witness ==
  /\ pc = "install:gallery"
  /\ \E j \in 1..Len(galleryTask) : galleryTask[j].pc = "install"
  /\ vsixTask # <<>>
  /\ ~VsixIncomplete
  /\ Ended("vsix", "installed") # {}

\* the candidates requested without and with a version
Versionless == {j \in 1..Len(installExtensionInfos) : installExtensionInfos[j].version = Undefined}
Pinned == {j \in 1..Len(installExtensionInfos) : installExtensionInfos[j].version # Undefined}
BatchedLookups == {c \in calls : c.delegate = "getExtensions"}
PinnedLookups == {c \in calls : c.delegate = "getCompatibleExtension"}

\* candidate j has no entry in the mapping getGalleryExtensions returned
Unmapped(j) == toLowerCase(installExtensionInfos[j].id) \notin DOMAIN galleryExtensions

\* C17: once getGalleryExtensions has been called, and before any of its
\* lookups has settled, there is exactly one batched lookup, carrying
\* exactly the identifiers of the version-less candidates, and exactly one
\* compatible-extension lookup for every version-pinned candidate, with its
\* identifier and version.  The mapping holds nothing but the answers: for
\* a version-pinned candidate the extension at the pinned version or
\* nothing.  A candidate without an entry is recorded in the failed set and
\* installFromGallery is not called for it.
C17_Lookups ==
  op = "install" =>
    /\ lookup = NoLookup => BatchedLookups \cup PinnedLookups = {}
    /\ lookup # NoLookup =>
         /\ Cardinality(BatchedLookups) = 1
         /\ \A c \in BatchedLookups :
              /\ Len(c.ids) = Cardinality(Versionless)
              /\ Range(c.ids) = {installExtensionInfos[j].id : j \in Versionless}
         /\ Cardinality(PinnedLookups) = Cardinality(Pinned)
         /\ \A j \in Pinned :
              \E c \in PinnedLookups :
                /\ c.task = Cardinality({m \in Pinned : m <= j})
                /\ c.id = installExtensionInfos[j].id
                /\ c.version = installExtensionInfos[j].version
    /\ \A key \in DOMAIN galleryExtensions :
         /\ toLowerCase(galleryExtensions[key].identifier.id) = key
         /\ \E j \in 1..Len(installExtensionInfos) :
              /\ toLowerCase(installExtensionInfos[j].id) = key
              /\ \/ j \in Versionless
                 \/ galleryExtensions[key].version = installExtensionInfos[j].version
    /\ \A j \in 1..Len(galleryTask) :
         Unmapped(j) =>
           /\ installExtensionInfos[j].id \in Range(failed)
           /\ Settled("gallery", j, "not found") \in settled
           /\ \A c \in calls : c.delegate = "installFromGallery" => c.task # j

\* the batch has a version-less and a version-pinned candidate; the pinned
\* lookup found no compatible extension and left the mapping as it was:
\* the pinned candidate failed, the other one was installed
C17_Witness ==
  /\ BatchEnded
  /\ Versionless # {}
  /\ \E j \in Pinned :
       /\ Unmapped(j)
       /\ installExtensionInfos[j].id \in Range(failed)
  /\ Cardinality(DOMAIN galleryExtensions) = 1
  /\ Ended("gallery", "installed") # {}

\* C19: every installFromGallery call made for a version-pinned candidate
\* passes the gallery extension at that candidate's own pinned version, and
\* every call made for a version-less candidate passes the extension the
\* batched lookup returns for it (the latest published version), also when
\* several candidates of the batch have the same identifier.
C19_OwnResolution ==
  \A c \in calls :
    c.delegate = "installFromGallery" =>
      IF c.task \in Pinned
      THEN c.gallery.version = installExtensionInfos[c.task].version
      ELSE \E e \in Published(installExtensionInfos[c.task].id) :
             c.gallery = GalleryExtension(e, e.latest)

\* C20: with force not set, while only local packages are installed, the
\* store never holds an extension at a version lower than the version of a
\* package of that extension that the batch has installed.
C20_NoRaceDowngrade ==
  (op = "install" /\ ~force /\ pc = "install:vsixs") =>
    \A x \in Ended("vsix", "installed") :
      \A k \in 1..Len(store) :
        toLowerCase(store[k].identifier.id)
            = toLowerCase(Dot(vsixTask[x.task].manifest.publisher,
                              vsixTask[x.task].manifest.name))
          => ~gt(vsixTask[x.task].manifest.version, store[k].manifest.version)

====
